---- MODULE Spec2Model ----
\* Model of the PsiCash client core (src/psicash.cpp): the retrying request
\* orchestrator MakeHTTPRequestWithRetry and the purchase transaction
\* NewExpiringPurchase, over the persisted user data store.
EXTENDS Integers, Sequences, FiniteSets, TLC

\* ---------------------------------------------------------------------------
\* Bounds
\* ---------------------------------------------------------------------------

\* Number of NewExpiringPurchase calls explored in one behaviour.
MaxCalls == 1

\* Longest purchase list the store starts with.
MaxPurchases == 3

\* The device clock runs from 10 up to this time.
MaxNow == 11

\* ---------------------------------------------------------------------------
\* Program constants
\* ---------------------------------------------------------------------------

max_attempts == 3

kHTTPStatusOK == 200
kHTTPStatusUnauthorized == 401
kHTTPStatusPaymentRequired == 402
kHTTPStatusNotFound == 404
kHTTPStatusConflict == 409
kHTTPStatusTooManyRequests == 429
kHTTPStatusInternalServerError == 500

kAPIServerVersion == "v1"
kPsiCashUserAgent == "Psiphon-PsiCash-iOS"
kMethodPOST == "POST"

\* ---------------------------------------------------------------------------
\* Optional values: <<>> is "absent", <<v>> is "present with value v".
\* ---------------------------------------------------------------------------

None == <<>>

Some(v) == <<v>>

\* ---------------------------------------------------------------------------
\* Date and time conversions (datetime.h). Times are integers; the zero
\* DateTime is 0.
\* ---------------------------------------------------------------------------

\* DateTime::FromRFC7231: the envelope's date header to a server time.
FromRFC7231(s) ==
    CASE s = "Tue, 01 Jan 2030 00:00:12 GMT" -> [ok |-> TRUE, t |-> 12]
      [] s = "Tue, 01 Jan 2030 00:00:15 GMT" -> [ok |-> TRUE, t |-> 15]
      [] OTHER -> [ok |-> FALSE, t |-> 0]

\* DateTime::FromISO8601: the body's Expires to a server time.
FromISO8601(s) ==
    CASE s = "2030-01-01T00:00:20Z" -> [ok |-> TRUE, t |-> 20]
      [] s = "1970-01-01T00:00:00Z" -> [ok |-> TRUE, t |-> 0]
      [] OTHER -> [ok |-> FALSE, t |-> 0]

\* DateTime::IsZero
IsZero(t) == t = 0

\* ---------------------------------------------------------------------------
\* Transaction response bodies (the string in the envelope's "body").
\* kind "empty" is the empty string, "garbage" a string json::parse rejects
\* (or a JSON value that is not an object), "json" a JSON object whose fields
\* of the expected type are given as optionals. tr is the "TransactionResponse"
\* member: "null" absent, "obj" an object, "bad" a value operator[] rejects.
\* ---------------------------------------------------------------------------

JsonBody(bal, txid, auth, trk, type, exp) ==
    [kind |-> "json", Balance |-> bal, TransactionID |-> txid,
     Authorization |-> auth, tr |-> trk, Type |-> type, Expires |-> exp]

EmptyString == [kind |-> "empty", Balance |-> None, TransactionID |-> None,
                Authorization |-> None, tr |-> "null", Type |-> None,
                Expires |-> None]

GarbageBody == [EmptyString EXCEPT !.kind = "garbage"]

ExpiresOk == "2030-01-01T00:00:20Z"

ExpiresZero == "1970-01-01T00:00:00Z"

GoodBody ==
    JsonBody(Some(100), Some("abc"), Some("auth"), "obj",
             Some("expiring-purchase"), Some(ExpiresOk))

GoodBodyBare ==
    JsonBody(None, Some("abc"), None, "obj",
             Some("expiring-purchase"), Some(ExpiresOk))

WrongTypeBody ==
    JsonBody(Some(100), Some("abc"), None, "obj", Some("other"), Some(ExpiresOk))

NoTypeBody ==
    JsonBody(Some(100), Some("abc"), None, "obj", None, Some(ExpiresOk))

EmptyIdBody ==
    JsonBody(Some(100), Some(""), None, "obj",
             Some("expiring-purchase"), Some(ExpiresOk))

NoIdBody ==
    JsonBody(Some(100), None, None, "obj",
             Some("expiring-purchase"), Some(ExpiresOk))

NoExpiresBody ==
    JsonBody(Some(100), Some("abc"), None, "obj", Some("expiring-purchase"), None)

BadExpiresBody ==
    JsonBody(Some(100), Some("abc"), None, "obj",
             Some("expiring-purchase"), Some("next week"))

ZeroExpiresBody ==
    JsonBody(Some(100), Some("abc"), None, "obj",
             Some("expiring-purchase"), Some(ExpiresZero))

BalanceOnlyBody == JsonBody(Some(50), None, None, "null", None, None)

EmptyObjectBody == JsonBody(None, None, None, "null", None, None)

BadTransactionResponseBody == JsonBody(Some(100), Some("abc"), None, "bad", None, None)

BodyStrings ==
    {EmptyString, GarbageBody, GoodBody, GoodBodyBare, WrongTypeBody, NoTypeBody,
     EmptyIdBody, NoIdBody, NoExpiresBody, BadExpiresBody, ZeroExpiresBody,
     BalanceOnlyBody, EmptyObjectBody, BadTransactionResponseBody}

\* ---------------------------------------------------------------------------
\* Transport envelopes: what make_http_request_fn_ returns. kind "empty" is
\* the empty string, "garbage" a string json::parse rejects or an object
\* whose "status" is not a number, "json" an envelope whose string members
\* are given as optionals.
\* ---------------------------------------------------------------------------

Statuses == {-1, 200, 302, 401, 402, 404, 409, 429, 500, 503}

DateStrings == {"yesterday", "Tue, 01 Jan 2030 00:00:12 GMT"}

ErrorStrings == {"timeout"}

Opt(S) == {None} \cup {Some(v) : v \in S}

EmptyEnvelope == [kind |-> "empty", status |-> -1, body |-> None,
                  date |-> None, error |-> None]

GarbageEnvelope == [EmptyEnvelope EXCEPT !.kind = "garbage"]

\* Envelopes that vary the body, and envelopes that vary date and error.
BodyEnvelopes ==
    [kind : {"json"}, status : Statuses, body : Opt(BodyStrings),
     date : {None}, error : {None}]

HeaderEnvelopes ==
    [kind : {"json"}, status : Statuses, body : {None, Some(GoodBody)},
     date : Opt(DateStrings), error : Opt(ErrorStrings)]

\* Envelopes with a later date: returned at once, retried, and failing on an
\* error string.
LaterDateEnvelopes ==
    [kind : {"json"}, status : {200, 503}, body : {None},
     date : {Some("Tue, 01 Jan 2030 00:00:15 GMT")}, error : Opt(ErrorStrings)]

JsonEnvelopes == BodyEnvelopes \cup HeaderEnvelopes \cup LaterDateEnvelopes

Envelopes == {EmptyEnvelope, GarbageEnvelope} \cup JsonEnvelopes

\* An envelope with a status of 500 or more and no error string.
ServerErrorEnvelope(e) == e.kind = "json" /\ e.status >= 500 /\ e.error = None

\* An envelope with a status below 500 (not -1) and no error string.
TerminalEnvelope(e) ==
    e.kind = "json" /\ e.status < 500 /\ e.status # -1 /\ e.error = None

\* An envelope that is empty, unparseable, carries an error string, or has
\* status -1.
FatalEnvelope(e) ==
    \/ e.kind \in {"empty", "garbage"}
    \/ e.kind = "json" /\ (e.error # None \/ e.status = -1)

\* The body string an envelope carries: the empty string when it has none.
EnvelopeBody(e) == IF e.body = None THEN EmptyString ELSE e.body[1]

\* The date string an envelope carries: the empty string when it has none.
EnvelopeDate(e) == IF e.date = None THEN "" ELSE e.date[1]

\* ---------------------------------------------------------------------------
\* The persisted store (userdata.h): accessors used by psicash.cpp.
\* ---------------------------------------------------------------------------

TokenTypes == {"earner", "indicator", "spender"}

\* The key order of the std::map holding the tokens.
TokenOrder == <<"earner", "indicator", "spender">>

\* UserData::SetBalance
SetBalance(b) == b

\* UserData::SetServerTimeDiff: clock skew = server time - local now.
SetServerTimeDiff(serverTime, now) == serverTime - now

\* UserData::AddPurchase: append-one; err is the Error it returns.
AddPurchase(ps, p) == [err |-> FALSE, purchases |-> Append(ps, p)]

\* UserData::SetAuthTokens: the token mapping is set wholesale.
SetAuthTokens(tokens) == tokens

\* ---------------------------------------------------------------------------
\* Request Builder
\* ---------------------------------------------------------------------------

RECURSIVE JoinTokens(_, _)
\* The loop of BuildRequestParams over GetAuthTokens(): the values of the
\* stored tokens in key order (the comma-joined header, as a sequence).
JoinTokens(tokens, k) ==
    IF k > Len(TokenOrder) THEN <<>>
    ELSE IF TokenOrder[k] \in DOMAIN tokens
         THEN <<tokens[TokenOrder[k]]>> \o JoinTokens(tokens, k + 1)
         ELSE JoinTokens(tokens, k + 1)

\* metadata["attempt"] = attempt on the copy GetRequestMetadata() returned:
\* the key is added, or its value replaced.
WithAttempt(metadata, attempt) ==
    [key \in DOMAIN metadata \cup {"attempt"} |->
        IF key = "attempt" THEN attempt ELSE metadata[key]]

\* BuildRequestParams with the loop index as the attempt number.
BuildRequestParamsLoopIndex(method, path, include_auth_tokens, query_params, attempt, tokens, metadata) ==
    [ok |-> TRUE,
     val |-> [method |-> method,
              path |-> <<"/", kAPIServerVersion, path>>,
              query |-> query_params,
              userAgent |-> kPsiCashUserAgent,
              auth |-> IF include_auth_tokens
                       THEN Some(JoinTokens(tokens, 1)) ELSE None,
              metadata |-> WithAttempt(metadata, attempt - 1)]]

\* PsiCash::BuildRequestParams. ok is FALSE when json dump throws, which no
\* value of this model makes happen.
BuildRequestParams(method, path, include_auth_tokens, query_params, attempt, tokens, metadata) ==
    [ok |-> TRUE,
     val |-> [method |-> method,
              path |-> <<"/", kAPIServerVersion, path>>,
              query |-> query_params,
              userAgent |-> kPsiCashUserAgent,
              auth |-> IF include_auth_tokens
                       THEN Some(JoinTokens(tokens, 1)) ELSE None,
              metadata |-> WithAttempt(metadata, attempt)]]

\* ---------------------------------------------------------------------------
\* Retrying Transport Orchestrator
\* ---------------------------------------------------------------------------

\* HTTPResult as default-constructed before the loop.
NewHTTPResult == [status |-> -1, body |-> EmptyString, date |-> "", error |-> ""]

\* The try block of one attempt: status is always taken from the envelope,
\* body, date and error only when the envelope carries a string for them.
ParseEnvelope(hr, j) ==
    [status |-> j.status,
     body |-> IF j.body # None THEN j.body[1] ELSE hr.body,
     date |-> IF j.date # None THEN j.date[1] ELSE hr.date,
     error |-> IF j.error # None THEN j.error[1] ELSE hr.error]

\* The server time SetServerTimeDiff is called with for this http_result, if any.
ServerDate(hr) ==
    IF hr.date # "" /\ FromRFC7231(hr.date).ok
    THEN Some(FromRFC7231(hr.date).t) ELSE None

\* Attempt with a server error returned at once instead of retried.
AttemptNoRetry(hr, raw) ==
    IF raw.kind = "empty"
    THEN [kind |-> "error", msg |-> "HTTP request function returned no value",
          hr |-> hr, serverDate |-> None]
    ELSE IF raw.kind = "garbage"
    THEN [kind |-> "error", msg |-> "json parse failed",
          hr |-> hr, serverDate |-> None]
    ELSE LET r == ParseEnvelope(hr, raw) IN
         IF r.status = -1 /\ r.error = ""
         THEN [kind |-> "error",
               msg |-> "HTTP result status is -1 but no error message provided",
               hr |-> r, serverDate |-> None]
         ELSE IF r.error # ""
         THEN [kind |-> "error", msg |-> "Request resulted in error",
               hr |-> r, serverDate |-> ServerDate(r)]
         ELSE [kind |-> "return", msg |-> "", hr |-> r, serverDate |-> ServerDate(r)]

\* Attempt with the retry threshold at 400 instead of 500.
AttemptRetryClientErrors(hr, raw) ==
    IF raw.kind = "empty"
    THEN [kind |-> "error", msg |-> "HTTP request function returned no value",
          hr |-> hr, serverDate |-> None]
    ELSE IF raw.kind = "garbage"
    THEN [kind |-> "error", msg |-> "json parse failed",
          hr |-> hr, serverDate |-> None]
    ELSE LET r == ParseEnvelope(hr, raw) IN
         IF r.status = -1 /\ r.error = ""
         THEN [kind |-> "error",
               msg |-> "HTTP result status is -1 but no error message provided",
               hr |-> r, serverDate |-> None]
         ELSE IF r.error # ""
         THEN [kind |-> "error", msg |-> "Request resulted in error",
               hr |-> r, serverDate |-> ServerDate(r)]
         ELSE IF r.status >= 400
         THEN [kind |-> "retry", msg |-> "", hr |-> r, serverDate |-> ServerDate(r)]
         ELSE [kind |-> "return", msg |-> "", hr |-> r, serverDate |-> ServerDate(r)]

\* Attempt with the status test ahead of the error-string test.
AttemptRetryBeforeError(hr, raw) ==
    IF raw.kind = "empty"
    THEN [kind |-> "error", msg |-> "HTTP request function returned no value",
          hr |-> hr, serverDate |-> None]
    ELSE IF raw.kind = "garbage"
    THEN [kind |-> "error", msg |-> "json parse failed",
          hr |-> hr, serverDate |-> None]
    ELSE LET r == ParseEnvelope(hr, raw) IN
         IF r.status = -1 /\ r.error = ""
         THEN [kind |-> "error",
               msg |-> "HTTP result status is -1 but no error message provided",
               hr |-> r, serverDate |-> None]
         ELSE IF r.status >= 500
         THEN [kind |-> "retry", msg |-> "", hr |-> [r EXCEPT !.error = ""],
               serverDate |-> ServerDate(r)]
         ELSE IF r.error # ""
         THEN [kind |-> "error", msg |-> "Request resulted in error",
               hr |-> r, serverDate |-> ServerDate(r)]
         ELSE [kind |-> "return", msg |-> "", hr |-> r, serverDate |-> ServerDate(r)]

\* Attempt with the clock skew set only after the error-string test.
AttemptDateAfterError(hr, raw) ==
    IF raw.kind = "empty"
    THEN [kind |-> "error", msg |-> "HTTP request function returned no value",
          hr |-> hr, serverDate |-> None]
    ELSE IF raw.kind = "garbage"
    THEN [kind |-> "error", msg |-> "json parse failed",
          hr |-> hr, serverDate |-> None]
    ELSE LET r == ParseEnvelope(hr, raw) IN
         IF r.status = -1 /\ r.error = ""
         THEN [kind |-> "error",
               msg |-> "HTTP result status is -1 but no error message provided",
               hr |-> r, serverDate |-> None]
         ELSE IF r.error # ""
         THEN [kind |-> "error", msg |-> "Request resulted in error",
               hr |-> r, serverDate |-> None]
         ELSE IF r.status >= 500
         THEN [kind |-> "retry", msg |-> "", hr |-> r, serverDate |-> ServerDate(r)]
         ELSE [kind |-> "return", msg |-> "", hr |-> r, serverDate |-> ServerDate(r)]

\* The body of the retry loop after the transport returned raw: what the
\* attempt does ("error": return an Error, "retry": continue, "return":
\* return http_result), the http_result it leaves, and the server time it
\* stores a clock skew for.
Attempt(hr, raw) ==
    IF raw.kind = "empty"
    THEN [kind |-> "error", msg |-> "HTTP request function returned no value",
          hr |-> hr, serverDate |-> None]
    ELSE IF raw.kind = "garbage"
    THEN [kind |-> "error", msg |-> "json parse failed",
          hr |-> hr, serverDate |-> None]
    ELSE LET r == ParseEnvelope(hr, raw) IN
         IF r.status = -1 /\ r.error = ""
         THEN [kind |-> "error",
               msg |-> "HTTP result status is -1 but no error message provided",
               hr |-> r, serverDate |-> None]
         ELSE IF r.error # ""
         THEN [kind |-> "error", msg |-> "Request resulted in error",
               hr |-> r, serverDate |-> ServerDate(r)]
         ELSE IF r.status >= 500
         THEN [kind |-> "retry", msg |-> "", hr |-> r, serverDate |-> ServerDate(r)]
         ELSE [kind |-> "return", msg |-> "", hr |-> r, serverDate |-> ServerDate(r)]

\* ---------------------------------------------------------------------------
\* Purchase Transaction Interpreter
\* ---------------------------------------------------------------------------

\* The tokens NewExpiringPurchase stores before it issues the request.
HardcodedTokens ==
    [t \in TokenTypes |->
        CASE t = "earner" -> "569ee3e4"
          [] t = "spender" -> "eb3f9a19"
          [] t = "indicator" -> "6058c5f9"]

\* The query parameters of the transaction request: price to amount.
TransactionQuery(transaction_class, distinguisher, expected_price) ==
    [class |-> transaction_class, distinguisher |-> distinguisher,
     expectedAmount |-> 0 - expected_price]

\* The try block that parses result->body: the locals it fills, the balance
\* it stores on the way (SetBalance runs before the later fields are read),
\* and whether it ended in an error return (json exception or bad Expires).
ParseBody(body) ==
    IF body.kind # "json"
    THEN [ok |-> FALSE, msg |-> "json parse failed", setBalance |-> None,
          transaction_id |-> "", authorization |-> "", transaction_type |-> "",
          server_expiry |-> 0]
    ELSE LET id == IF body.TransactionID # None THEN body.TransactionID[1] ELSE ""
             auth == IF body.Authorization # None THEN body.Authorization[1] ELSE ""
             type == IF body.Type # None THEN body.Type[1] ELSE ""
             exp == IF body.Expires # None
                    THEN FromISO8601(body.Expires[1]) ELSE [ok |-> TRUE, t |-> 0]
         IN IF body.tr = "bad"
            THEN [ok |-> FALSE, msg |-> "json parse failed",
                  setBalance |-> body.Balance,
                  transaction_id |-> id, authorization |-> auth,
                  transaction_type |-> "", server_expiry |-> 0]
            ELSE IF ~exp.ok
            THEN [ok |-> FALSE,
                  msg |-> "failed to parse TransactionResponse.Values.Expires",
                  setBalance |-> body.Balance,
                  transaction_id |-> id, authorization |-> auth,
                  transaction_type |-> type, server_expiry |-> 0]
            ELSE [ok |-> TRUE, msg |-> "", setBalance |-> body.Balance,
                  transaction_id |-> id, authorization |-> auth,
                  transaction_type |-> type, server_expiry |-> exp.t]

\* BodyStatuses without 402: a 402 is then interpreted without a body.
BodyStatusesWithout402 ==
    {kHTTPStatusOK, kHTTPStatusTooManyRequests, kHTTPStatusConflict}

\* The statuses whose response body is parsed.
BodyStatuses ==
    {kHTTPStatusOK, kHTTPStatusTooManyRequests, kHTTPStatusPaymentRequired,
     kHTTPStatusConflict}

\* StatusOutcome with the outcomes of 402 and 409 exchanged.
StatusOutcomeSwapped(status) ==
    CASE status = kHTTPStatusTooManyRequests -> "ExistingTransaction"
      [] status = kHTTPStatusPaymentRequired -> "TransactionAmountMismatch"
      [] status = kHTTPStatusConflict -> "InsufficientBalance"
      [] status = kHTTPStatusNotFound -> "TransactionTypeNotFound"
      [] status = kHTTPStatusUnauthorized -> "InvalidTokens"
      [] status = kHTTPStatusInternalServerError -> "ServerError"
      [] OTHER -> "none"

\* The else-if chain over result->status for the statuses other than 200.
StatusOutcome(status) ==
    CASE status = kHTTPStatusTooManyRequests -> "ExistingTransaction"
      [] status = kHTTPStatusPaymentRequired -> "InsufficientBalance"
      [] status = kHTTPStatusConflict -> "TransactionAmountMismatch"
      [] status = kHTTPStatusNotFound -> "TransactionTypeNotFound"
      [] status = kHTTPStatusUnauthorized -> "InvalidTokens"
      [] status = kHTTPStatusInternalServerError -> "ServerError"
      [] OTHER -> "none"

\* What NewExpiringPurchase returns: an Error, or a response with a status
\* and an optional purchase.
ErrorReturn(msg) == [err |-> TRUE, msg |-> msg, status |-> "none", purchase |-> None]

ResponseReturn(status, purchase) ==
    [err |-> FALSE, msg |-> "", status |-> status, purchase |-> purchase]

\* NewPurchase with transaction_class and distinguisher exchanged.
NewPurchaseSwapped(id, transaction_class, distinguisher, server_expiry, authorization) ==
    [id |-> id, transaction_class |-> distinguisher,
     distinguisher |-> transaction_class, server_time_expiry |-> Some(server_expiry),
     local_time_expiry |-> None, authorization |-> Some(authorization)]

\* Purchase as NewExpiringPurchase constructs it.
NewPurchase(id, transaction_class, distinguisher, server_expiry, authorization) ==
    [id |-> id, transaction_class |-> transaction_class,
     distinguisher |-> distinguisher, server_time_expiry |-> Some(server_expiry),
     local_time_expiry |-> None, authorization |-> Some(authorization)]

\* Validate without the TransactionID and expiry checks.
ValidateTypeOnly(parsed) ==
    IF parsed.transaction_type # "expiring-purchase"
    THEN "response contained incorrect TransactionResponse.Type"
    ELSE ""

\* The checks of the 200 branch on the parsed fields: the message of the
\* error returned, "" when all pass.
Validate(parsed) ==
    IF parsed.transaction_type # "expiring-purchase"
    THEN "response contained incorrect TransactionResponse.Type"
    ELSE IF parsed.transaction_id = ""
    THEN "response did not provide valid TransactionID"
    ELSE IF IsZero(parsed.server_expiry)
    THEN "response did not provide valid TransactionResponse.Values.Expires"
    ELSE ""

\* Interpret with the purchase added before the 200 response is validated.
InterpretAddBeforeValidate(result, transaction_class, distinguisher, bal, ps) ==
    LET needsBody == result.status \in BodyStatuses
        parsed == ParseBody(result.body)
        bal1 == IF needsBody /\ result.body.kind # "empty" /\ parsed.setBalance # None
                THEN SetBalance(parsed.setBalance[1]) ELSE bal
        purchase == NewPurchase(parsed.transaction_id, transaction_class,
                                distinguisher, parsed.server_expiry,
                                parsed.authorization)
        added == AddPurchase(ps, purchase)
    IN IF needsBody /\ result.body.kind = "empty"
       THEN [ret |-> ErrorReturn("result has no body"), balance |-> bal, purchases |-> ps]
       ELSE IF needsBody /\ ~parsed.ok
       THEN [ret |-> ErrorReturn(parsed.msg), balance |-> bal1, purchases |-> ps]
       ELSE IF result.status = kHTTPStatusOK
       THEN IF added.err
            THEN [ret |-> ErrorReturn("AddPurchase failed"),
                  balance |-> bal1, purchases |-> ps]
            ELSE IF Validate(parsed) # ""
            THEN [ret |-> ErrorReturn(Validate(parsed)),
                  balance |-> bal1, purchases |-> added.purchases]
            ELSE [ret |-> ResponseReturn("Success", Some(purchase)),
                  balance |-> bal1, purchases |-> added.purchases]
       ELSE IF StatusOutcome(result.status) # "none"
       THEN [ret |-> ResponseReturn(StatusOutcome(result.status), None),
             balance |-> bal1, purchases |-> ps]
       ELSE [ret |-> ErrorReturn("request returned unexpected status code"),
             balance |-> bal1, purchases |-> ps]

\* NewExpiringPurchase from the return of MakeHTTPRequestWithRetry on: result
\* is the HTTPResult it returned. Gives the value returned to the caller and
\* the balance and purchase list the store is left with.
Interpret(result, transaction_class, distinguisher, bal, ps) ==
    LET needsBody == result.status \in BodyStatuses
        parsed == ParseBody(result.body)
        bal1 == IF needsBody /\ result.body.kind # "empty" /\ parsed.setBalance # None
                THEN SetBalance(parsed.setBalance[1]) ELSE bal
        purchase == NewPurchase(parsed.transaction_id, transaction_class,
                                distinguisher, parsed.server_expiry,
                                parsed.authorization)
        added == AddPurchase(ps, purchase)
    IN IF needsBody /\ result.body.kind = "empty"
       THEN [ret |-> ErrorReturn("result has no body"), balance |-> bal, purchases |-> ps]
       ELSE IF needsBody /\ ~parsed.ok
       THEN [ret |-> ErrorReturn(parsed.msg), balance |-> bal1, purchases |-> ps]
       ELSE IF result.status = kHTTPStatusOK
       THEN IF Validate(parsed) # ""
            THEN [ret |-> ErrorReturn(Validate(parsed)),
                  balance |-> bal1, purchases |-> ps]
            ELSE IF added.err
            THEN [ret |-> ErrorReturn("AddPurchase failed"),
                  balance |-> bal1, purchases |-> ps]
            ELSE [ret |-> ResponseReturn("Success", Some(purchase)),
                  balance |-> bal1, purchases |-> added.purchases]
       ELSE IF StatusOutcome(result.status) # "none"
       THEN [ret |-> ResponseReturn(StatusOutcome(result.status), None),
             balance |-> bal1, purchases |-> ps]
       ELSE [ret |-> ErrorReturn("request returned unexpected status code"),
             balance |-> bal1, purchases |-> ps]

\* ---------------------------------------------------------------------------
\* Local Query Layer
\* ---------------------------------------------------------------------------

\* IsExpired with a purchase that expires right now counted as expired.
IsExpiredNotStrict(p, local_now) ==
    p.local_time_expiry # None /\ p.local_time_expiry[1] <= local_now

\* IsExpired, with local_now the value DateTime::Now() gives.
IsExpired(p, local_now) ==
    p.local_time_expiry # None /\ p.local_time_expiry[1] < local_now

RECURSIVE ValidPurchasesLoop(_, _, _, _)
\* The loop of ValidPurchases from element k on, res the list built so far.
ValidPurchasesLoop(ps, k, res, local_now) ==
    IF k > Len(ps) THEN res
    ELSE IF ~IsExpired(ps[k], local_now)
         THEN ValidPurchasesLoop(ps, k + 1, Append(res, ps[k]), local_now)
         ELSE ValidPurchasesLoop(ps, k + 1, res, local_now)

\* PsiCash::ValidPurchases
ValidPurchases(ps, local_now) == ValidPurchasesLoop(ps, 1, <<>>, local_now)

RECURSIVE NextExpiringLoopLastWins(_, _, _)
\* The loop of NextExpiringPurchase with a later purchase replacing an
\* earlier one of the same expiry.
NextExpiringLoopLastWins(ps, k, next) ==
    IF k > Len(ps) THEN next
    ELSE IF ps[k].server_time_expiry = None
         THEN NextExpiringLoopLastWins(ps, k + 1, next)
         ELSE IF next = None
         THEN NextExpiringLoopLastWins(ps, k + 1, Some(ps[k]))
         ELSE IF ps[k].server_time_expiry[1] <= next[1].server_time_expiry[1]
         THEN NextExpiringLoopLastWins(ps, k + 1, Some(ps[k]))
         ELSE NextExpiringLoopLastWins(ps, k + 1, next)

NextExpiringPurchaseLastWins(ps) == NextExpiringLoopLastWins(ps, 1, None)

RECURSIVE NextExpiringLoop(_, _, _)
\* The loop of NextExpiringPurchase from element k on, next the optional
\* purchase held so far.
NextExpiringLoop(ps, k, next) ==
    IF k > Len(ps) THEN next
    ELSE IF ps[k].server_time_expiry = None
         THEN NextExpiringLoop(ps, k + 1, next)
         ELSE IF next = None
         THEN NextExpiringLoop(ps, k + 1, Some(ps[k]))
         ELSE IF ps[k].server_time_expiry[1] < next[1].server_time_expiry[1]
         THEN NextExpiringLoop(ps, k + 1, Some(ps[k]))
         ELSE NextExpiringLoop(ps, k + 1, next)

\* PsiCash::NextExpiringPurchase
NextExpiringPurchase(ps) == NextExpiringLoop(ps, 1, None)

\* UserData::SetPurchases: replace-whole-list; err is the Error it returns.
SetPurchases(ps) == [err |-> FALSE, purchases |-> ps]

\* error::WrapError: wrapping no error gives no error.
WrapError(err) == err

RECURSIVE ExpireLoop(_, _, _, _, _)
\* The loop of ExpirePurchases from element k on.
ExpireLoop(ps, k, expired, valid, local_now) ==
    IF k > Len(ps) THEN [expired |-> expired, valid |-> valid]
    ELSE IF IsExpired(ps[k], local_now)
         THEN ExpireLoop(ps, k + 1, Append(expired, ps[k]), valid, local_now)
         ELSE ExpireLoop(ps, k + 1, expired, Append(valid, ps[k]), local_now)

\* ExpirePurchases that persists all purchases instead of the valid ones.
ExpirePurchasesKeepAll(ps, local_now) ==
    [err |-> FALSE, expired |-> ExpireLoop(ps, 1, <<>>, <<>>, local_now).expired,
     purchases |-> ps]

\* PsiCash::ExpirePurchases: the Result it returns (err, or the expired
\* purchases) and the purchase list the store is left with.
ExpirePurchases(ps, local_now) ==
    LET parts == ExpireLoop(ps, 1, <<>>, <<>>, local_now)
        set == SetPurchases(parts.valid)
    IN IF set.err
       THEN [err |-> TRUE, expired |-> <<>>, purchases |-> ps]
       ELSE [err |-> FALSE, expired |-> parts.expired, purchases |-> set.purchases]

\* IdMatches that looks at the first id only.
IdMatchesFirstOnly(p, ids) == Len(ids) >= 1 /\ p.id = ids[1]

\* The inner loop of RemovePurchases: some id of ids is p's.
IdMatches(p, ids) == \E k \in 1..Len(ids) : p.id = ids[k]

RECURSIVE RemoveLoop(_, _, _, _)
\* The outer loop of RemovePurchases from element k on.
RemoveLoop(ps, k, ids, remaining) ==
    IF k > Len(ps) THEN remaining
    ELSE IF ~IdMatches(ps[k], ids)
         THEN RemoveLoop(ps, k + 1, ids, Append(remaining, ps[k]))
         ELSE RemoveLoop(ps, k + 1, ids, remaining)

\* PsiCash::RemovePurchases: the Error it returns and the purchase list the
\* store is left with.
RemovePurchases(ps, ids) ==
    LET set == SetPurchases(RemoveLoop(ps, 1, ids, <<>>))
    IN [err |-> WrapError(set.err),
        purchases |-> IF set.err THEN ps ELSE set.purchases]

RECURSIVE TokenTypesLoop(_, _)
\* PsiCash::ValidTokenTypes: the keys of the stored tokens, in map order.
TokenTypesLoop(tokens, k) ==
    IF k > Len(TokenOrder) THEN <<>>
    ELSE IF TokenOrder[k] \in DOMAIN tokens
         THEN <<TokenOrder[k]>> \o TokenTypesLoop(tokens, k + 1)
         ELSE TokenTypesLoop(tokens, k + 1)

ValidTokenTypes(tokens) == TokenTypesLoop(tokens, 1)

\* SanitizedPurchases that also writes each purchase's id.
SanitizedPurchasesWithId(ps) ==
    [k \in 1..Len(ps) |->
        [class |-> ps[k].transaction_class, distinguisher |-> ps[k].distinguisher,
         id |-> ps[k].id]]

\* The sanitized purchase list of GetDiagnosticInfo.
SanitizedPurchases(ps) ==
    [k \in 1..Len(ps) |->
        [class |-> ps[k].transaction_class, distinguisher |-> ps[k].distinguisher]]

\* PsiCash::GetDiagnosticInfo
GetDiagnosticInfo(tokens, is_account, bal, diff, prices, ps) ==
    [validTokenTypes |-> ValidTokenTypes(tokens),
     isAccount |-> is_account,
     balance |-> bal,
     serverTimeDiff |-> diff,
     purchasePrices |-> prices,
     purchases |-> SanitizedPurchases(ps)]

\* ---------------------------------------------------------------------------
\* Boundary Encoders
\* ---------------------------------------------------------------------------

kLandingPageParamKey == "psicash"

kEarnerTokenType == "earner"

\* auth_tokens[key] on the token map: a key that is not there is inserted
\* with an empty string.
TokenAt(tokens, key) == IF key \in DOMAIN tokens THEN tokens[key] ELSE ""

\* The "tokens" member of the landing page payload: None is JSON null.
LandingPageTokens(tokens) ==
    IF Cardinality(DOMAIN tokens) = 0 THEN None
    ELSE Some(TokenAt(tokens, kEarnerTokenType))

\* psicash_data: the payload both encoders build.
PsiCashData(tokens, metadata) == [v |-> 1, tokens |-> tokens, metadata |-> metadata]

\* json dump: the serialized payload.
Dump(j) == [json |-> j]

\* URL::Encode
Encode(str) == [percent_encoded |-> str]

\* base64::B64Encode
B64Encode(str) == [base64 |-> str]

\* A piece of a URL's query or fragment: plain text, or key=value with an
\* encoded value.
TextPiece(text) == [key |-> text, value |-> None]

ParamPiece(key, value) == [key |-> key, value |-> Some(value)]

\* URL::Parse: url_string is given by its parts, valid FALSE when it does not
\* parse.
Parse(url_string) ==
    [err |-> ~url_string.valid,
     url |-> [base |-> url_string.base, query_ |-> url_string.query,
              fragment_ |-> url_string.fragment]]

\* URL::ToString
URLToString(url) ==
    [valid |-> TRUE, base |-> url.base, query |-> url.query_,
     fragment |-> url.fragment_]

\* The placement of the payload in ModifyLandingPage with the payload always
\* written to the fragment.
PlacePayloadInFragment(url, param) == [url EXCEPT !.fragment_ = <<param>>]

\* The placement of the payload in ModifyLandingPage: the fragment when it
\* is empty, the query otherwise.
PlacePayload(url, param) ==
    IF url.fragment_ = <<>>
    THEN [url EXCEPT !.fragment_ = <<param>>]
    ELSE LET q == IF url.query_ # <<>>
                  THEN url.query_ \o <<TextPiece("&")>> ELSE url.query_
         IN [url EXCEPT !.query_ = q \o <<param>>]

\* PsiCash::ModifyLandingPage: the Result it returns.
ModifyLandingPage(url_string, tokens, metadata) ==
    LET parsed == Parse(url_string)
        json_data == Dump(PsiCashData(LandingPageTokens(tokens), metadata))
        param == ParamPiece(kLandingPageParamKey, Encode(json_data))
    IN IF parsed.err
       THEN [err |-> TRUE, val |-> URLToString(parsed.url)]
       ELSE [err |-> FALSE, val |-> URLToString(PlacePayload(parsed.url, param))]

\* PsiCash::GetRewardedActivityData: the Result it returns.
GetRewardedActivityData(tokens, metadata) ==
    IF Cardinality(DOMAIN tokens) = 0
    THEN [err |-> TRUE, val |-> B64Encode(Dump(PsiCashData("", metadata)))]
    ELSE [err |-> FALSE,
          val |-> B64Encode(Dump(PsiCashData(TokenAt(tokens, kEarnerTokenType),
                                             metadata)))]

\* ---------------------------------------------------------------------------
\* State
\* ---------------------------------------------------------------------------

VARIABLES
    authTokens,       \* store: token type -> token
    balance,          \* store: balance
    purchases,        \* store: purchase list
    requestMetadata,  \* store: request metadata
    serverTimeDiff,   \* store: clock skew
    localNow,         \* the device clock
    pc,               \* "idle", "transport" (inside make_http_request_fn_), "done"
    args,             \* arguments of the NewExpiringPurchase call in progress
    i,                \* loop index of MakeHTTPRequestWithRetry
    http_result,      \* local http_result of MakeHTTPRequestWithRetry
    request,          \* request descriptor handed to the transport
    mhr,              \* what MakeHTTPRequestWithRetry returned
    ret,              \* what NewExpiringPurchase returned
    invocations,      \* transport invocations of the call in progress
    lastEnv,          \* envelope the transport returned last
    allRetry,         \* every envelope of the call so far was a server error
    pre,              \* store contents when the call started
    ncalls,           \* NewExpiringPurchase calls so far
    isAccount,        \* store: account flag
    purchasePrices,   \* store: purchase prices
    op,               \* the local operation that ran last
    opResult          \* what that operation returned

vars ==
    <<authTokens, balance, purchases, requestMetadata, serverTimeDiff, localNow,
      pc, args, i, http_result, request, mhr, ret, invocations, lastEnv,
      allRetry, pre, ncalls, isAccount, purchasePrices, op, opResult>>

store == <<authTokens, balance, purchases, requestMetadata, serverTimeDiff>>

queryVars == <<isAccount, purchasePrices, op, opResult>>

\* The variables of a NewExpiringPurchase call in progress.
callVars ==
    <<pc, args, i, http_result, request, mhr, ret, invocations, lastEnv,
      allRetry, ncalls>>

NoOut == <<>>

NoArgs == [transaction_class |-> "", distinguisher |-> "", expected_price |-> 0]

NoRequest == BuildRequestParams("", "", FALSE, TransactionQuery("", "", 0), 0, <<>>, <<>>).val

NoMhr == [kind |-> "none", msg |-> "", result |-> NewHTTPResult]

NoRet == [err |-> FALSE, msg |-> "", status |-> "pending", purchase |-> None]

NoPre == [balance |-> 0, purchases |-> <<>>, authTokens |-> <<>>]

\* A purchase already in the store when the model starts.
StoredPurchase ==
    [id |-> "old", transaction_class |-> "speed-boost", distinguisher |-> "24hr",
     server_time_expiry |-> Some(15), local_time_expiry |-> None,
     authorization |-> Some("")]

StoredTokens == [t \in {"earner", "spender"} |-> IF t = "earner" THEN "e0" ELSE "s0"]

TransactionClasses == {"speed-boost"}

Distinguishers == {"1hr"}

Prices == {100}

\* The stores the model starts from: a fresh one and a populated one, whose
\* request metadata has an item named "attempt" of its own.
InitialStores ==
    {[authTokens |-> <<>>, balance |-> 0, purchases |-> <<>>,
      requestMetadata |-> [sponsor_id |-> "sponsor"]],
     [authTokens |-> StoredTokens, balance |-> 70, purchases |-> <<StoredPurchase>>,
      requestMetadata |-> [sponsor_id |-> "sponsor", attempt |-> 7]]}

Init ==
    /\ \E s \in InitialStores :
          /\ authTokens = s.authTokens
          /\ balance = s.balance
          /\ purchases = s.purchases
          /\ requestMetadata = s.requestMetadata
    /\ serverTimeDiff = 0
    /\ localNow = 10
    /\ pc = "idle"
    /\ args = NoArgs
    /\ i = 0
    /\ http_result = NewHTTPResult
    /\ request = NoRequest
    /\ mhr = NoMhr
    /\ ret = NoRet
    /\ invocations = 0
    /\ lastEnv = EmptyEnvelope
    /\ allRetry = TRUE
    /\ pre = NoPre
    /\ ncalls = 0
    /\ isAccount = FALSE
    /\ purchasePrices = <<>>
    /\ op = "none"
    /\ opResult = NoOut

\* ---------------------------------------------------------------------------
\* Actions
\* ---------------------------------------------------------------------------

\* NewExpiringPurchase from its entry to the first transport invocation.
NewExpiringPurchase(transaction_class, distinguisher, expected_price) ==
    LET tokens == SetAuthTokens(HardcodedTokens)
        req == BuildRequestParams(kMethodPOST, "/transaction", TRUE,
                   TransactionQuery(transaction_class, distinguisher, expected_price),
                   1, tokens, requestMetadata)
    IN /\ pc = "idle"
       /\ ncalls < MaxCalls
       /\ ncalls' = ncalls + 1
       /\ pre' = [balance |-> balance, purchases |-> purchases,
                  authTokens |-> authTokens]
       /\ authTokens' = tokens
       /\ args' = [transaction_class |-> transaction_class,
                   distinguisher |-> distinguisher,
                   expected_price |-> expected_price]
       /\ i' = 0
       /\ http_result' = NewHTTPResult
       /\ invocations' = 0
       /\ lastEnv' = EmptyEnvelope
       /\ allRetry' = TRUE
       /\ mhr' = NoMhr
       /\ IF req.ok
          THEN /\ request' = req.val
               /\ pc' = "transport"
               /\ ret' = NoRet
          ELSE /\ request' = NoRequest
               /\ pc' = "done"
               /\ ret' = ErrorReturn("BuildRequestParams failed")
       /\ UNCHANGED <<balance, purchases, requestMetadata, serverTimeDiff, localNow>>
       /\ UNCHANGED queryVars

\* NewExpiringPurchase once MakeHTTPRequestWithRetry returned r (kind "error"
\* or "result"): the rest of the call, to its return.
Finish(r) ==
    /\ mhr' = r
    /\ pc' = "done"
    /\ IF r.kind = "error"
       THEN /\ ret' = ErrorReturn("MakeHTTPRequestWithRetry failed")
            /\ UNCHANGED <<balance, purchases>>
       ELSE LET out == Interpret(r.result, args.transaction_class,
                                 args.distinguisher, balance, purchases)
            IN /\ ret' = out.ret
               /\ balance' = out.balance
               /\ purchases' = out.purchases

\* The transport returns raw: the retry loop from there to the next transport
\* invocation, or to the return of MakeHTTPRequestWithRetry and, with it, of
\* NewExpiringPurchase.
TransportReturn(raw) ==
    LET a == Attempt(http_result, raw)
        next == BuildRequestParams(kMethodPOST, "/transaction", TRUE,
                    TransactionQuery(args.transaction_class, args.distinguisher,
                                     args.expected_price),
                    i + 2, authTokens, requestMetadata)
    IN /\ pc = "transport"
       /\ invocations' = invocations + 1
       /\ lastEnv' = raw
       /\ allRetry' = (allRetry /\ ServerErrorEnvelope(raw))
       /\ http_result' = a.hr
       /\ serverTimeDiff' = IF a.serverDate # None
                            THEN SetServerTimeDiff(a.serverDate[1], localNow)
                            ELSE serverTimeDiff
       /\ CASE a.kind = "error" ->
                 /\ Finish([kind |-> "error", msg |-> a.msg, result |-> NewHTTPResult])
                 /\ UNCHANGED <<i, request>>
            [] a.kind = "return" ->
                 /\ Finish([kind |-> "result", msg |-> "", result |-> a.hr])
                 /\ UNCHANGED <<i, request>>
            [] a.kind = "retry" /\ i + 1 >= max_attempts ->
                 /\ Finish([kind |-> "result", msg |-> "", result |-> a.hr])
                 /\ i' = i + 1
                 /\ UNCHANGED request
            [] a.kind = "retry" /\ i + 1 < max_attempts /\ ~next.ok ->
                 /\ Finish([kind |-> "error", msg |-> "BuildRequestParams failed",
                            result |-> NewHTTPResult])
                 /\ i' = i + 1
                 /\ UNCHANGED request
            [] OTHER ->
                 /\ i' = i + 1
                 /\ request' = next.val
                 /\ UNCHANGED <<pc, mhr, ret, balance, purchases>>
       /\ UNCHANGED <<authTokens, requestMetadata, localNow, args, pre, ncalls>>
       /\ UNCHANGED queryVars

\* The caller takes the returned value; the engine is ready for the next call.
Return ==
    /\ pc = "done"
    /\ pc' = "idle"
    /\ args' = NoArgs
    /\ i' = 0
    /\ http_result' = NewHTTPResult
    /\ request' = NoRequest
    /\ mhr' = NoMhr
    /\ ret' = NoRet
    /\ invocations' = 0
    /\ lastEnv' = EmptyEnvelope
    /\ allRetry' = TRUE
    /\ pre' = NoPre
    /\ UNCHANGED <<store, localNow, ncalls>>
    /\ UNCHANGED queryVars

Next ==
    \/ \E c \in TransactionClasses, d \in Distinguishers, p \in Prices :
          NewExpiringPurchase(c, d, p)
    \/ \E raw \in Envelopes : TransportReturn(raw)
    \/ Return

Spec == Init /\ [][Next]_vars

\* ---------------------------------------------------------------------------
\* The local operations: queries over the store and the boundary encoders
\* ---------------------------------------------------------------------------

StoredPurchaseOf(id, distinguisher, server_expiry, local_expiry, authorization) ==
    [id |-> id, transaction_class |-> "speed-boost", distinguisher |-> distinguisher,
     server_time_expiry |-> server_expiry, local_time_expiry |-> local_expiry,
     authorization |-> authorization]

\* The purchases a store may hold: with and without server and local expiry,
\* two with the same server expiry, two pairs with the same class and
\* distinguisher.
PurchaseUniverse ==
    {StoredPurchaseOf("a", "1hr", Some(20), Some(12), Some("auth-a")),
     StoredPurchaseOf("b", "24hr", Some(15), Some(9), Some("")),
     StoredPurchaseOf("c", "7d", None, None, None),
     StoredPurchaseOf("d", "24hr", Some(15), Some(10), Some("auth-d")),
     StoredPurchaseOf("e", "1hr", Some(14), None, Some(""))}

\* Purchase lists of at most MaxPurchases purchases with distinct ids.
PurchaseLists ==
    UNION {{ps \in [1..n -> PurchaseUniverse] :
               \A j, k \in 1..n : ps[j].id = ps[k].id => j = k} : n \in 0..MaxPurchases}

\* Token stores: none, two with earner and spender that differ in the token
\* strings, and one without an earner token.
TokenStores ==
    {<<>>,
     StoredTokens,
     [t \in {"earner", "spender"} |-> IF t = "earner" THEN "e1" ELSE "s1"],
     [t \in {"indicator", "spender"} |-> IF t = "indicator" THEN "i0" ELSE "s0"]}

StoredPrices ==
    <<[transaction_class |-> "speed-boost", distinguisher |-> "1hr", price |-> 100]>>

\* The landing page URLs given to ModifyLandingPage.
LandingPageURLs ==
    [valid : BOOLEAN, base : {"https://example.com/page"},
     query : {<<>>, <<TextPiece("a=b")>>},
     fragment : {<<>>, <<TextPiece("top")>>}]

\* The id vectors given to RemovePurchases.
RemoveIds ==
    {<<>>, <<"a">>, <<"zzz">>, <<"b", "zzz", "a">>, <<"d", "d">>}

InitQuery ==
    /\ authTokens \in TokenStores
    /\ isAccount = ("indicator" \in DOMAIN authTokens)
    /\ balance = 70
    /\ purchases \in PurchaseLists
    /\ purchasePrices = StoredPrices
    /\ requestMetadata = [sponsor_id |-> "sponsor"]
    /\ serverTimeDiff = 2
    /\ localNow = 10
    /\ pc = "idle"
    /\ args = NoArgs
    /\ i = 0
    /\ http_result = NewHTTPResult
    /\ request = NoRequest
    /\ mhr = NoMhr
    /\ ret = NoRet
    /\ invocations = 0
    /\ lastEnv = EmptyEnvelope
    /\ allRetry = TRUE
    /\ pre = NoPre
    /\ ncalls = 0
    /\ op = "none"
    /\ opResult = NoOut

\* The store as an operation finds it.
Snapshot == [balance |-> balance, purchases |-> purchases, authTokens |-> authTokens]

\* What an operation that only reads the store leaves alone.
readFrame == <<store, localNow, callVars, isAccount, purchasePrices>>

DoValidPurchases ==
    /\ pc = "idle"
    /\ op' = "ValidPurchases"
    /\ opResult' = ValidPurchases(purchases, localNow)
    /\ pre' = Snapshot
    /\ UNCHANGED readFrame

DoNextExpiringPurchase ==
    /\ pc = "idle"
    /\ op' = "NextExpiringPurchase"
    /\ opResult' = NextExpiringPurchase(purchases)
    /\ pre' = Snapshot
    /\ UNCHANGED readFrame

DoExpirePurchases ==
    LET r == ExpirePurchases(purchases, localNow)
    IN /\ pc = "idle"
       /\ op' = "ExpirePurchases"
       /\ opResult' = [err |-> r.err, expired |-> r.expired]
       /\ purchases' = r.purchases
       /\ pre' = Snapshot
       /\ UNCHANGED <<authTokens, balance, requestMetadata, serverTimeDiff,
                      localNow, callVars, isAccount, purchasePrices>>

DoRemovePurchases(ids) ==
    LET r == RemovePurchases(purchases, ids)
    IN /\ pc = "idle"
       /\ op' = "RemovePurchases"
       /\ opResult' = [err |-> r.err, ids |-> ids]
       /\ purchases' = r.purchases
       /\ pre' = Snapshot
       /\ UNCHANGED <<authTokens, balance, requestMetadata, serverTimeDiff,
                      localNow, callVars, isAccount, purchasePrices>>

DoModifyLandingPage(url_string) ==
    /\ pc = "idle"
    /\ op' = "ModifyLandingPage"
    /\ opResult' = [url |-> url_string,
                    result |-> ModifyLandingPage(url_string, authTokens,
                                                 requestMetadata)]
    /\ pre' = Snapshot
    /\ UNCHANGED readFrame

DoGetRewardedActivityData ==
    /\ pc = "idle"
    /\ op' = "GetRewardedActivityData"
    /\ opResult' = GetRewardedActivityData(authTokens, requestMetadata)
    /\ pre' = Snapshot
    /\ UNCHANGED readFrame

DoGetDiagnosticInfo ==
    /\ pc = "idle"
    /\ op' = "GetDiagnosticInfo"
    /\ opResult' = GetDiagnosticInfo(authTokens, isAccount, balance,
                                     serverTimeDiff, purchasePrices, purchases)
    /\ pre' = Snapshot
    /\ UNCHANGED readFrame

\* The device clock advances.
Tick ==
    /\ pc = "idle"
    /\ localNow < MaxNow
    /\ localNow' = localNow + 1
    /\ op' = "none"
    /\ opResult' = NoOut
    /\ pre' = NoPre
    /\ UNCHANGED <<store, callVars, isAccount, purchasePrices>>

NextQuery ==
    \/ DoValidPurchases
    \/ DoNextExpiringPurchase
    \/ DoExpirePurchases
    \/ \E ids \in RemoveIds : DoRemovePurchases(ids)
    \/ \E u \in LandingPageURLs : DoModifyLandingPage(u)
    \/ DoGetRewardedActivityData
    \/ DoGetDiagnosticInfo
    \/ Tick

SpecQuery == InitQuery /\ [][NextQuery]_vars

\* ---------------------------------------------------------------------------
\* Purchases and local operations interleaved: the life of the purchase list
\* ---------------------------------------------------------------------------

\* The purchase lists the store starts with: none, and two purchases of
\* which one is expired at the first local time.
LifecyclePurchases ==
    {<<>>,
     <<StoredPurchaseOf("b", "24hr", Some(15), Some(9), Some("")),
       StoredPurchaseOf("c", "7d", None, None, None)>>}

\* The id vectors given to RemovePurchases.
LifecycleRemoveIds == {<<"c">>, <<"zzz">>}

\* The envelopes the transport returns here: every status with no body, a
\* complete purchase body, a body with a Balance only and a body without
\* TransactionID, and the empty return.
LifecycleEnvelopes ==
    {EmptyEnvelope} \cup
    [kind : {"json"}, status : Statuses,
     body : {None, Some(GoodBody), Some(BalanceOnlyBody), Some(NoIdBody)},
     date : {None}, error : {None}]

InitLifecycle ==
    /\ authTokens = StoredTokens
    /\ isAccount = FALSE
    /\ balance = 70
    /\ purchases \in LifecyclePurchases
    /\ purchasePrices = StoredPrices
    /\ requestMetadata = [sponsor_id |-> "sponsor"]
    /\ serverTimeDiff = 0
    /\ localNow = 10
    /\ pc = "idle"
    /\ args = NoArgs
    /\ i = 0
    /\ http_result = NewHTTPResult
    /\ request = NoRequest
    /\ mhr = NoMhr
    /\ ret = NoRet
    /\ invocations = 0
    /\ lastEnv = EmptyEnvelope
    /\ allRetry = TRUE
    /\ pre = NoPre
    /\ ncalls = 0
    /\ op = "none"
    /\ opResult = NoOut

NextLifecycle ==
    \/ \E c \in TransactionClasses, d \in Distinguishers, p \in Prices :
          NewExpiringPurchase(c, d, p)
    \/ \E raw \in LifecycleEnvelopes : TransportReturn(raw)
    \/ Return
    \/ DoExpirePurchases
    \/ \E ids \in LifecycleRemoveIds : DoRemovePurchases(ids)
    \/ Tick

SpecLifecycle == InitLifecycle /\ [][NextLifecycle]_vars

\* ---------------------------------------------------------------------------
\* Properties of MakeHTTPRequestWithRetry
\* ---------------------------------------------------------------------------

\* C1: one call invokes the transport at most 3 times; when every attempt
\* returned a status of 500 or more and no error string, the transport was
\* invoked exactly 3 times and the call returns a result, not an error, whose
\* status is the status of the third response.
C1_ThreeAttempts ==
    /\ invocations <= 3
    /\ (pc = "done" /\ allRetry)
          => /\ invocations = 3
             /\ mhr.kind = "result"
             /\ mhr.result.status = lastEnv.status

\* Three server errors were received and the call has returned.
C1_Witness ==
    pc = "done" /\ allRetry /\ invocations = 3 /\ lastEnv.status = 503

\* C2: once an attempt returned a parseable envelope with a status below 500
\* (not -1) and no error string, the call has returned that result and the
\* transport is not invoked again, whatever the status means.
C2_ClientStatusReturnsAtOnce ==
    (invocations >= 1 /\ TerminalEnvelope(lastEnv))
       => /\ pc = "done"
          /\ mhr.kind = "result"
          /\ mhr.result.status = lastEnv.status
          /\ ~ENABLED (\E raw \in Envelopes : TransportReturn(raw))

\* A 409 was returned after a retried server error.
C2_Witness ==
    pc = "done" /\ invocations = 2 /\ lastEnv.kind = "json"
    /\ lastEnv.status = 409 /\ lastEnv.error = None /\ mhr.kind = "result"

\* C3: on any attempt, an empty transport return, an unparseable envelope,
\* status -1, or an error string makes the call fail with an error at once,
\* with no further transport invocation, also when the status is 500 or more.
C3_FatalEnvelopeFailsAtOnce ==
    (invocations >= 1 /\ FatalEnvelope(lastEnv))
       => /\ pc = "done"
          /\ mhr.kind = "error"
          /\ ret.err
          /\ ~ENABLED (\E raw \in Envelopes : TransportReturn(raw))

\* The third attempt returned a 503 that carries an error string.
C3_Witness ==
    pc = "done" /\ invocations = 3 /\ lastEnv.kind = "json"
    /\ lastEnv.status = 503 /\ lastEnv.error # None /\ mhr.kind = "error"

\* C4: the result MakeHTTPRequestWithRetry returns is the last attempt's
\* envelope as-is: its status, body and date are those of the last response,
\* so a body or date absent from the last envelope is empty in the result.
C4_ResultIsLastEnvelope ==
    (pc = "done" /\ mhr.kind = "result")
       => /\ mhr.result.status = lastEnv.status
          /\ mhr.result.body = EnvelopeBody(lastEnv)
          /\ mhr.result.date = EnvelopeDate(lastEnv)

\* ---------------------------------------------------------------------------
\* Properties of NewExpiringPurchase
\* ---------------------------------------------------------------------------

\* A body NewExpiringPurchase accepts for the status: a JSON object whose
\* TransactionResponse can be read and whose Expires, if sent, parses; for
\* 200 also the right type tag, a TransactionID and a non-zero Expires.
AcceptableBody(status, b) ==
    /\ b.kind = "json"
    /\ b.tr # "bad"
    /\ b.Expires # None => FromISO8601(b.Expires[1]).ok
    /\ status = 200 =>
          /\ b.Type = Some("expiring-purchase")
          /\ b.TransactionID \notin {None, Some("")}
          /\ b.Expires # None
          /\ FromISO8601(b.Expires[1]).t # 0

\* The outcome the status table gives for a terminal status.
TableOutcome(status) ==
    CASE status = 200 -> "Success"
      [] status = 429 -> "ExistingTransaction"
      [] status = 402 -> "InsufficientBalance"
      [] status = 409 -> "TransactionAmountMismatch"
      [] status = 404 -> "TransactionTypeNotFound"
      [] status = 401 -> "InvalidTokens"
      [] status = 500 -> "ServerError"
      [] OTHER -> "fatal"

\* C5: the terminal HTTP status decides the outcome as a total function (200
\* Success, 429 ExistingTransaction, 402 InsufficientBalance, 409
\* TransactionAmountMismatch, 404 TransactionTypeNotFound, 401 InvalidTokens,
\* 500 ServerError, given an acceptable body where one is parsed; any other
\* status a fatal error), and the purchase is populated only for Success.
C5_StatusTable ==
    (pc = "done" /\ mhr.kind = "result")
       => LET s == mhr.result.status
              b == mhr.result.body
          IN /\ (s \in {200, 429, 402, 409} => AcceptableBody(s, b))
                   => IF TableOutcome(s) = "fatal"
                      THEN ret.err
                      ELSE ~ret.err /\ ret.status = TableOutcome(s)
             /\ ret.purchase # None => (~ret.err /\ ret.status = "Success")
             /\ (~ret.err /\ ret.status = "Success") => ret.purchase # None

\* A 402 with a body gave InsufficientBalance.
C5_Witness ==
    pc = "done" /\ mhr.kind = "result" /\ mhr.result.status = 402
    /\ ret.status = "InsufficientBalance" /\ ret.purchase = None

\* The last envelope is a 200 without error string whose body has an integer
\* Balance, a non-empty TransactionID, the expiring-purchase type and a
\* parseable non-zero Expires.
GoodPurchaseResponse(e) ==
    /\ e.kind = "json" /\ e.status = 200 /\ e.error = None /\ e.body # None
    /\ LET b == e.body[1]
       IN /\ b.kind = "json"
          /\ b.Balance # None
          /\ b.TransactionID \notin {None, Some("")}
          /\ b.tr = "obj"
          /\ b.Type = Some("expiring-purchase")
          /\ b.Expires # None
          /\ FromISO8601(b.Expires[1]).ok
          /\ FromISO8601(b.Expires[1]).t # 0

\* C6: on status 200 with a complete body the call returns Success with a
\* purchase whose id is the TransactionID, whose class and distinguisher are
\* the call's arguments and whose server_time_expiry is the Expires value;
\* the stored balance is then Balance and the stored purchase list is the
\* previous list with that purchase appended.
C6_SuccessfulPurchase ==
    (invocations >= 1 /\ GoodPurchaseResponse(lastEnv))
       => LET b == lastEnv.body[1]
          IN /\ pc = "done"
             /\ ~ret.err
             /\ ret.status = "Success"
             /\ ret.purchase # None
             /\ ret.purchase[1].id = b.TransactionID[1]
             /\ ret.purchase[1].transaction_class = args.transaction_class
             /\ ret.purchase[1].distinguisher = args.distinguisher
             /\ ret.purchase[1].server_time_expiry = Some(FromISO8601(b.Expires[1]).t)
             /\ balance = b.Balance[1]
             /\ purchases = Append(pre.purchases, ret.purchase[1])

\* A purchase "abc" was appended to a store that already held one.
C6_Witness ==
    /\ pc = "done" /\ invocations >= 1 /\ GoodPurchaseResponse(lastEnv)
    /\ pre.purchases # <<>> /\ pre.balance # 100
    /\ Len(purchases) = Len(pre.purchases) + 1
    /\ purchases[Len(purchases)].id = "abc"

\* The last envelope is a 200 without error string whose body is a JSON
\* object with a wrong or missing type tag, a missing or empty TransactionID,
\* or a missing, unparseable or zero Expires.
IncompletePurchaseResponse(e) ==
    /\ e.kind = "json" /\ e.status = 200 /\ e.error = None /\ e.body # None
    /\ LET b == e.body[1]
       IN /\ b.kind = "json"
          /\ \/ b.Type # Some("expiring-purchase")
             \/ b.TransactionID \in {None, Some("")}
             \/ b.Expires = None
             \/ ~FromISO8601(b.Expires[1]).ok
             \/ FromISO8601(b.Expires[1]).t = 0

\* C7: on status 200 with a wrong type tag, a missing or empty TransactionID,
\* or a missing, unparseable or zero Expires, the call fails with a fatal
\* error and returns no typed outcome.
C7_IncompleteResponseIsFatal ==
    (invocations >= 1 /\ IncompletePurchaseResponse(lastEnv))
       => /\ pc = "done"
          /\ mhr.kind = "result"
          /\ ret.err
          /\ ret.status = "none"
          /\ ret.purchase = None
          /\ purchases = pre.purchases

\* A 200 whose Expires is the zero time was rejected.
C7_Witness ==
    /\ pc = "done" /\ lastEnv.kind = "json" /\ lastEnv.status = 200
    /\ lastEnv.body = Some(ZeroExpiresBody) /\ ret.err /\ mhr.kind = "result"

\* C8: no partial side effects: whenever the call fails with a fatal error,
\* the stored balance and purchase list are the same as before the call.
C8_ErrorLeavesStoreUnchanged ==
    (pc = "done" /\ ret.err)
       => (balance = pre.balance /\ purchases = pre.purchases)

\* C9 as stated: a 402 with no body gives InsufficientBalance and leaves the
\* stored balance and purchase list unchanged.
C9_PaymentRequiredWithoutBody ==
    (pc = "done" /\ lastEnv.kind = "json" /\ lastEnv.status = 402
        /\ lastEnv.error = None /\ lastEnv.body = None)
       => /\ ~ret.err
          /\ ret.status = "InsufficientBalance"
          /\ balance = pre.balance
          /\ purchases = pre.purchases

\* C9 amended: when the result NewExpiringPurchase interprets has status 402
\* and no body (the 402 response carries none and no earlier retried response
\* of the call left one in the result), the call fails with the fatal error
\* "result has no body", returns no typed outcome, and leaves the stored
\* balance and purchase list unchanged.
C9_PaymentRequiredNeedsBody ==
    (pc = "done" /\ mhr.kind = "result" /\ mhr.result.status = 402
        /\ mhr.result.body = EmptyString)
       => /\ ret.err
          /\ ret.msg = "result has no body"
          /\ ret.status = "none"
          /\ balance = pre.balance
          /\ purchases = pre.purchases

\* A 402 without body was answered with an error.
C9_Witness ==
    /\ pc = "done" /\ lastEnv.kind = "json" /\ lastEnv.status = 402
    /\ lastEnv.error = None /\ lastEnv.body = None
    /\ mhr.kind = "result" /\ mhr.result.body = EmptyString /\ ret.err

\* C10: if the last response of a call has status 200, 429, 402 or 409 and
\* carries no body, the call fails with a fatal error and appends no
\* purchase, also when an earlier retried response carried a body.
C10_MissingBodyIsFatal ==
    (pc = "done" /\ lastEnv.kind = "json" /\ lastEnv.status \in {200, 429, 402, 409}
        /\ lastEnv.error = None /\ lastEnv.body = None)
       => /\ ret.err
          /\ ret.status = "none"
          /\ purchases = pre.purchases

\* C11: when all three attempts of a NewExpiringPurchase call return a status
\* of 500 or more, the call surfaces the typed outcome ServerError and not a
\* fatal error.
C11_ExhaustedRetriesGiveServerError ==
    (pc = "done" /\ allRetry /\ invocations = 3)
       => (~ret.err /\ ret.status = "ServerError")

\* C12: NewExpiringPurchase takes the auth tokens from the store only: the
\* auth header of the request is built from the tokens stored before the
\* call, and the stored tokens are the same after the call as before it.
C12_TokensComeFromStore ==
    (pc \in {"transport", "done"})
       => /\ request.auth = Some(JoinTokens(pre.authTokens, 1))
          /\ authTokens = pre.authTokens

\* ---------------------------------------------------------------------------
\* Properties of the boundary encoders
\* ---------------------------------------------------------------------------

\* C13: GetRewardedActivityData fails whenever no earner token is stored,
\* also when other tokens are stored, and succeeds only when an earner token
\* is stored.
C13_RewardDataNeedsEarnerToken ==
    op = "GetRewardedActivityData"
       => (opResult.err <=> "earner" \notin DOMAIN authTokens)

\* A piece that carries the landing page payload.
IsPayload(piece) == piece.key = "psicash" /\ piece.value # None

\* The payload pieces of a URL, those of the query first.
PayloadPieces(u) == SelectSeq(u.query \o u.fragment, IsPayload)

\* C14: the payload built by ModifyLandingPage has tokens equal to the stored
\* earner token when one is stored and null otherwise, also when the store
\* holds only other tokens.
C14_PayloadTokens ==
    (op = "ModifyLandingPage" /\ ~opResult.result.err)
       => LET pieces == PayloadPieces(opResult.result.val)
          IN /\ Len(pieces) >= 1
             /\ pieces[1].value[1].percent_encoded.json.tokens
                   = IF "earner" \in DOMAIN authTokens
                     THEN Some(authTokens["earner"]) ELSE None

\* C15: on a parseable URL ModifyLandingPage puts the payload in exactly one
\* place: with an empty fragment the fragment becomes the payload and the
\* query is unchanged; with a fragment the fragment is unchanged and the
\* payload is appended to the query, after the parameters it had. An
\* unparseable URL yields an error.
C15_PayloadPlacement ==
    op = "ModifyLandingPage"
       => LET u == opResult.url
              r == opResult.result
          IN IF ~u.valid THEN r.err
             ELSE /\ ~r.err
                  /\ r.val.base = u.base
                  /\ Len(PayloadPieces(r.val)) = 1
                  /\ IF u.fragment = <<>>
                     THEN /\ Len(r.val.fragment) = 1
                          /\ IsPayload(r.val.fragment[1])
                          /\ r.val.query = u.query
                     ELSE /\ r.val.fragment = u.fragment
                          /\ Len(r.val.query) > Len(u.query)
                          /\ SubSeq(r.val.query, 1, Len(u.query)) = u.query
                          /\ IsPayload(r.val.query[Len(r.val.query)])

\* A URL with a query and a fragment got the payload in its query.
C15_Witness ==
    /\ op = "ModifyLandingPage" /\ opResult.url.valid /\ ~opResult.result.err
    /\ opResult.url.fragment # <<>> /\ opResult.url.query # <<>>
    /\ Len(opResult.result.val.query) = 3

\* ---------------------------------------------------------------------------
\* Properties of the local query layer
\* ---------------------------------------------------------------------------

\* A purchase whose local_time_expiry is present and strictly earlier than
\* the local time.
ExpiredNow(p) == p.local_time_expiry # None /\ p.local_time_expiry[1] < localNow

NotExpiredNow(p) == ~ExpiredNow(p)

\* C16: ValidPurchases returns exactly the stored purchases that are not
\* expired, in stored order, a purchase being expired iff its
\* local_time_expiry is present and strictly earlier than local now; the
\* stored list is not changed.
C16_ValidPurchases ==
    op = "ValidPurchases"
       => /\ opResult = SelectSeq(pre.purchases, NotExpiredNow)
          /\ purchases = pre.purchases

\* An expired purchase was left out; one expiring right now and one without
\* local_time_expiry were returned.
C16_Witness ==
    /\ op = "ValidPurchases"
    /\ Len(opResult) = 2 /\ Len(purchases) = 3
    /\ \E k \in 1..2 : opResult[k].local_time_expiry = Some(localNow)
    /\ \E k \in 1..2 : opResult[k].local_time_expiry = None

\* The positions of the stored purchases that have a server_time_expiry.
WithServerExpiry(ps) == {k \in 1..Len(ps) : ps[k].server_time_expiry # None}

\* The first position holding the least server_time_expiry.
FirstMinimal(ps) ==
    CHOOSE k \in WithServerExpiry(ps) :
        \A j \in WithServerExpiry(ps) :
            \/ ps[k].server_time_expiry[1] < ps[j].server_time_expiry[1]
            \/ ps[k].server_time_expiry[1] = ps[j].server_time_expiry[1] /\ k <= j

\* C17: NextExpiringPurchase returns, among the stored purchases that have a
\* server_time_expiry, the one with the least, the first in stored order
\* when several share it; the result is none iff no stored purchase has a
\* server_time_expiry.
C17_NextExpiringPurchase ==
    op = "NextExpiringPurchase"
       => IF WithServerExpiry(purchases) = {}
          THEN opResult = None
          ELSE opResult = Some(purchases[FirstMinimal(purchases)])

\* Two purchases share the least expiry and the first of them was returned,
\* with a purchase without server_time_expiry stored as well.
C17_Witness ==
    /\ op = "NextExpiringPurchase" /\ Len(purchases) = 3
    /\ purchases[1].id = "d" /\ purchases[2].id = "c" /\ purchases[3].id = "b"
    /\ opResult = Some(purchases[1])

\* C18: ExpirePurchases is a stable partition of the stored purchases: the
\* expired list returned and the list persisted are disjoint, together hold
\* exactly the purchases stored before, each in the original order; a second
\* ExpirePurchases at the same local time returns an empty list and leaves
\* the stored list unchanged.
C18_ExpirePurchases ==
    op = "ExpirePurchases"
       => /\ ~opResult.err
          /\ opResult.expired = SelectSeq(pre.purchases, ExpiredNow)
          /\ purchases = SelectSeq(pre.purchases, NotExpiredNow)
          /\ Len(opResult.expired) + Len(purchases) = Len(pre.purchases)
          /\ \A j \in 1..Len(opResult.expired), k \in 1..Len(purchases) :
                opResult.expired[j] # purchases[k]
          /\ ExpirePurchases(purchases, localNow).expired = <<>>
          /\ ExpirePurchases(purchases, localNow).purchases = purchases

\* Two of three purchases expired and one stayed.
C18_Witness ==
    /\ op = "ExpirePurchases" /\ Len(pre.purchases) = 3
    /\ Len(opResult.expired) = 2 /\ Len(purchases) = 1

\* A purchase whose id is not among the ids given to RemovePurchases.
NotRemoved(p) == \A k \in 1..Len(opResult.ids) : opResult.ids[k] # p.id

\* C19: after RemovePurchases(ids) the stored list is the previous list
\* restricted to the purchases whose id is not in ids, in the same order;
\* ids that match nothing cause no error, and when no id matches the stored
\* list is unchanged.
C19_RemovePurchases ==
    op = "RemovePurchases"
       => /\ ~opResult.err
          /\ purchases = SelectSeq(pre.purchases, NotRemoved)
          /\ (\A k \in 1..Len(pre.purchases) : NotRemoved(pre.purchases[k]))
                => purchases = pre.purchases

\* Ids b, zzz, a removed a from a store holding c and a.
C19_Witness ==
    /\ op = "RemovePurchases" /\ opResult.ids = <<"b", "zzz", "a">>
    /\ Len(pre.purchases) = 2 /\ Len(purchases) = 1 /\ purchases[1].id = "c"

\* The (transaction_class, distinguisher) of each purchase, in order.
PurchaseKinds(ps) ==
    [k \in 1..Len(ps) |-> <<ps[k].transaction_class, ps[k].distinguisher>>]

\* C20: GetDiagnosticInfo leaks no secrets: a store that agrees with the
\* current one on token types, account flag, balance, clock skew, purchase
\* prices and each purchase's (transaction_class, distinguisher), but differs
\* in token strings, purchase ids, authorizations or expiries, gives the same
\* diagnostic output.
C20_DiagnosticInfoHidesSecrets ==
    op = "GetDiagnosticInfo"
       => \A tokens2 \in TokenStores, ps2 \in PurchaseLists :
             (DOMAIN tokens2 = DOMAIN authTokens
                 /\ PurchaseKinds(ps2) = PurchaseKinds(purchases))
                => GetDiagnosticInfo(tokens2, isAccount, balance, serverTimeDiff,
                                     purchasePrices, ps2) = opResult

\* Diagnostics were taken of a store for which another store with other
\* token strings and another purchase of the same kind exists.
C20_Witness ==
    /\ op = "GetDiagnosticInfo"
    /\ \E tokens2 \in TokenStores, ps2 \in PurchaseLists :
          /\ DOMAIN tokens2 = DOMAIN authTokens /\ tokens2 # authTokens
          /\ PurchaseKinds(ps2) = PurchaseKinds(purchases) /\ ps2 # purchases
          /\ Len(ps2) = 2

\* ---------------------------------------------------------------------------
\* Properties of the clock skew, the request of each attempt and the
\* purchase list
\* ---------------------------------------------------------------------------

\* A step in which the transport returns its envelope (lastEnv') to the
\* retry loop.
AttemptStep == pc = "transport" /\ invocations' = invocations + 1

\* The envelope with status -1 and no error string.
InconsistentEnvelope(e) == e.kind = "json" /\ e.status = -1 /\ e.error = None

\* C21 as stated: every attempt whose envelope carries a valid date sets the
\* stored clock skew from that date, also an attempt that is retried and one
\* that fails on the envelope's error string; an envelope whose date does
\* not parse leaves the clock skew unchanged and does not make
\* MakeHTTPRequestWithRetry fail.
C21_EveryValidDateSetsClockSkew ==
    [][AttemptStep =>
          LET e == lastEnv'
          IN (e.kind = "json" /\ e.date # None)
                => IF FromRFC7231(e.date[1]).ok
                   THEN serverTimeDiff' = FromRFC7231(e.date[1]).t - localNow
                   ELSE /\ serverTimeDiff' = serverTimeDiff
                        /\ mhr'.kind = "error" => FatalEnvelope(e)]_vars

\* C21 amended: the same for every envelope but the one with status -1 and no
\* error string, on which the call fails before the date is looked at and
\* the clock skew is unchanged.
C21_ValidDateSetsClockSkew ==
    [][AttemptStep =>
          LET e == lastEnv'
          IN (e.kind = "json" /\ e.date # None)
                => IF InconsistentEnvelope(e)
                   THEN serverTimeDiff' = serverTimeDiff /\ mhr'.kind = "error"
                   ELSE IF FromRFC7231(e.date[1]).ok
                   THEN serverTimeDiff' = FromRFC7231(e.date[1]).t - localNow
                   ELSE /\ serverTimeDiff' = serverTimeDiff
                        /\ mhr'.kind = "error" => FatalEnvelope(e)]_vars

\* The second attempt, retried, set the clock skew from its date, and a
\* third attempt is under way.
C21_Witness ==
    /\ pc = "transport" /\ invocations = 2
    /\ lastEnv.status = 503 /\ lastEnv.error = None
    /\ lastEnv.date = Some("Tue, 01 Jan 2030 00:00:15 GMT")
    /\ serverTimeDiff = 15 - localNow

\* C22: within one MakeHTTPRequestWithRetry call the k-th transport
\* invocation (k = 1, 2, 3) receives a request whose metadata header is the
\* stored request metadata with attempt = k merged in, with the same method,
\* versioned path and query on every attempt; the attempt counter is never
\* written to the stored request metadata.
C22_RequestOfEachAttempt ==
    [][/\ pc' = "transport"
          => /\ invocations' \in 0..2
             /\ DOMAIN request'.metadata = DOMAIN requestMetadata' \cup {"attempt"}
             /\ request'.metadata["attempt"] = invocations' + 1
             /\ \A key \in DOMAIN requestMetadata' \ {"attempt"} :
                   request'.metadata[key] = requestMetadata'[key]
             /\ request'.method = "POST"
             /\ request'.path = <<"/", "v1", "/transaction">>
             /\ request'.query = [class |-> args'.transaction_class,
                                  distinguisher |-> args'.distinguisher,
                                  expectedAmount |-> 0 - args'.expected_price]
       /\ (pc = "transport" /\ pc' = "transport")
          => /\ request'.method = request.method
             /\ request'.path = request.path
             /\ request'.query = request.query
       /\ requestMetadata' = requestMetadata]_vars

\* The third invocation is under way with attempt = 3 in its metadata, the
\* stored metadata holding an "attempt" item of 7.
C22_Witness ==
    /\ pc = "transport" /\ invocations = 2
    /\ request.metadata = [sponsor_id |-> "sponsor", attempt |-> 3]
    /\ requestMetadata = [sponsor_id |-> "sponsor", attempt |-> 7]

\* A step in which NewExpiringPurchase returns.
CallReturns == pc = "transport" /\ pc' = "done"

\* A step that is an ExpirePurchases or a RemovePurchases.
SweepOrRemoval ==
    /\ pc = "idle" /\ pc' = "idle"
    /\ op' \in {"ExpirePurchases", "RemovePurchases"}
    /\ pre'.purchases = purchases

\* C23: over any sequence of operations the stored purchase list grows only
\* by a NewExpiringPurchase call that returns Success, by exactly one
\* purchase per such call, and shrinks only by ExpirePurchases or
\* RemovePurchases; a call with any other typed outcome or a fatal error
\* leaves the purchase list as it was when the call started, and the outcomes
\* of 404, 401 and 500 leave the balance as it was, also when the response
\* body carries a Balance.
C23_PurchaseListLifecycle ==
    [][/\ Len(purchases') > Len(purchases)
          => /\ CallReturns
             /\ ~ret'.err /\ ret'.status = "Success"
             /\ purchases' = Append(purchases, ret'.purchase[1])
       /\ Len(purchases') < Len(purchases) => SweepOrRemoval
       /\ Len(purchases') = Len(purchases) => purchases' = purchases
       /\ CallReturns
          => IF ~ret'.err /\ ret'.status = "Success"
             THEN Len(purchases') = Len(pre.purchases) + 1
             ELSE purchases' = pre.purchases
       /\ (CallReturns /\ ~ret'.err
              /\ ret'.status \in {"TransactionTypeNotFound", "InvalidTokens",
                                  "ServerError"})
          => balance' = pre.balance]_vars

\* After a sweep that expired a purchase, a call ended in InvalidTokens on a
\* 401 whose body carries a Balance other than the stored one.
C23_Witness ==
    /\ pc = "done" /\ ~ret.err /\ ret.status = "InvalidTokens"
    /\ lastEnv.status = 401 /\ lastEnv.body = Some(GoodBody)
    /\ GoodBody.Balance # None /\ GoodBody.Balance # Some(balance)
    /\ op = "ExpirePurchases" /\ Len(opResult.expired) = 1
    /\ Len(purchases) = 1

====
